---- MODULE Spec2Model ----
(***************************************************************************)
(* commandz: a declarative grammar engine for command-line style input.    *)
(* src/src/commandz.ts holds two generations of the library:               *)
(*   - the OptionBase / Option / ValueAction / ActionSelector classes      *)
(*     (lines 22-269), with validate / parse / execute;                    *)
(*   - the Action / SimpleOption / ActionSelector classes (lines 299-609), *)
(*     with validate / run.                                                *)
(* A grammar is a static tree of nodes; every call mutates the fields of   *)
(* the nodes in place.  The model keeps the fields of every node of the    *)
(* tree the host built in `heap` and one action per public operation; the  *)
(* host calls the operations on the root of its tree, which calls them on  *)
(* the nodes below.                                                        *)
(***************************************************************************)
EXTENDS Integers, Sequences, FiniteSets, TLC

VARIABLES
    root,   \* the root node of the grammar tree the host constructed
    heap,   \* node -> the node object's mutable fields
    last,   \* the most recent call of the host and what it returned
    calls   \* the number of validate / run calls made so far

vars == <<root, heap, last, calls>>

-----------------------------------------------------------------------------
(* Bounds *)

\* the longest token list the host supplies
MaxLen == 2

\* the number of validate / run calls the host makes on the tree
MaxCalls == 2

Tokens == {"a", "7"}

Inputs == UNION {[1..k -> Tokens] : k \in 0..MaxLen}

-----------------------------------------------------------------------------
(* JavaScript values: undefined, numbers, NaN, strings, objects/arrays.    *)

Undefined == [t |-> "undefined", n |-> 0, s |-> "", a |-> <<>>]

NaN == [t |-> "NaN", n |-> 0, s |-> "", a |-> <<>>]

Num(k) == [t |-> "number", n |-> k, s |-> "", a |-> <<>>]

Str(x) == [t |-> "string", n |-> 0, s |-> x, a |-> <<>>]

Obj(items) == [t |-> "object", n |-> 0, s |-> "", a |-> items]

\* an absent array (a field never assigned) and a present one
NoArray == [def |-> FALSE, v |-> <<>>]

Arr(seq) == [def |-> TRUE, v |-> seq]

\* Number(token): the decimal tokens convert, every other text is NaN
NumberOf(tok) ==
    CASE tok = "7" -> Num(7)
      [] tok = "07" -> Num(7)
      [] tok = "" -> Num(0)
      [] OTHER -> NaN

\* x + y on numbers; undefined or NaN operands give NaN
Add(x, y) == IF x.t = "number" /\ y.t = "number" THEN Num(x.n + y.n) ELSE NaN

\* x <= k and x > y; any comparison with undefined or NaN is false
LessEq(x, k) == x.t = "number" /\ x.n <= k

Greater(x, y) == x.t = "number" /\ y.t = "number" /\ x.n > y.n

GreaterEq(x, y) == x.t = "number" /\ y.t = "number" /\ x.n >= y.n

\* input.slice(k)
Slice(input, k) == SubSeq(input, k + 1, Len(input))

-----------------------------------------------------------------------------
(* enum SelectionMode *)

FIRST == 0

LAST == 1

BEST_MATCH_FIRST == 2

BEST_MATCH_LAST == 3

SelectionMode == {FIRST, LAST, BEST_MATCH_FIRST, BEST_MATCH_LAST}

-----------------------------------------------------------------------------
(* The grammar trees a host declares (each built once, then reused).       *)
(* `Command` stands for the host's concrete subclass of Action.            *)

ActionNode(class, names, isCalledByName, options) ==
    [class |-> class, names |-> names, isCalledByName |-> isCalledByName,
     options |-> options]

Grammar ==
    [n \in {"num", "str", "cmd", "cmd.n", "pair", "pair.s", "pair.n",
            "pos", "pos.tag", "pos.tag.s", "pos.n",
            "sel", "sel.1", "sel.1.s", "sel.2", "sel.2.s", "sel.3", "sel.3.n",
            "grp", "grp.sel", "grp.sel.1", "grp.sel.1.s", "grp.n",
            "alt", "alt.n", "alt.s", "nest", "nest.in", "nest.in.s", "nest.s",
            "opt", "opt.s", "opt.e"} |->
      CASE n = "num"   -> ActionNode("NumberParser", <<>>, FALSE, <<>>)
        [] n = "str"   -> ActionNode("StringParser", <<"a">>, TRUE, <<>>)
        [] n = "cmd"   -> ActionNode("Command", <<"a", "7">>, TRUE, <<"cmd.n">>)
        [] n = "cmd.n" -> ActionNode("NumberParser", <<"b">>, FALSE, <<>>)
        [] n = "pair"   -> ActionNode("Command", <<>>, TRUE, <<"pair.s", "pair.n">>)
        [] n = "pair.s" -> ActionNode("StringParser", <<>>, FALSE, <<>>)
        [] n = "pair.n" -> ActionNode("NumberParser", <<>>, FALSE, <<>>)
        [] n = "pos"   -> ActionNode("Command", <<>>, TRUE, <<"pos.tag", "pos.n">>)
        [] n = "pos.tag"   -> ActionNode("Command", <<"a">>, FALSE, <<"pos.tag.s">>)
        [] n = "pos.tag.s" -> ActionNode("StringParser", <<>>, FALSE, <<>>)
        [] n = "pos.n" -> ActionNode("NumberParser", <<>>, FALSE, <<>>)
        [] n = "sel"   -> ActionNode("ActionSelector", <<>>, TRUE,
                                     <<"sel.1", "sel.2", "sel.3">>)
        [] n = "sel.1"   -> ActionNode("Command", <<"a">>, TRUE, <<"sel.1.s">>)
        [] n = "sel.1.s" -> ActionNode("StringParser", <<>>, FALSE, <<>>)
        [] n = "sel.2"   -> ActionNode("Command", <<>>, TRUE, <<"sel.2.s">>)
        [] n = "sel.2.s" -> ActionNode("StringParser", <<>>, FALSE, <<>>)
        [] n = "sel.3"   -> ActionNode("Command", <<"a", "7">>, TRUE, <<"sel.3.n">>)
        [] n = "sel.3.n" -> ActionNode("NumberParser", <<>>, FALSE, <<>>)
        [] n = "grp"     -> ActionNode("Command", <<>>, TRUE, <<"grp.sel", "grp.n">>)
        [] n = "grp.sel" -> ActionNode("ActionSelector", <<"a">>, TRUE, <<"grp.sel.1">>)
        [] n = "grp.sel.1"   -> ActionNode("Command", <<>>, TRUE, <<"grp.sel.1.s">>)
        [] n = "grp.sel.1.s" -> ActionNode("StringParser", <<>>, FALSE, <<>>)
        [] n = "grp.n"   -> ActionNode("NumberParser", <<>>, FALSE, <<>>)
        [] n = "alt"     -> ActionNode("ActionSelector", <<"a">>, TRUE, <<"alt.n", "alt.s">>)
        [] n = "alt.n"   -> ActionNode("NumberParser", <<>>, FALSE, <<>>)
        [] n = "alt.s"   -> ActionNode("StringParser", <<>>, FALSE, <<>>)
        [] n = "nest"    -> ActionNode("ActionSelector", <<>>, TRUE, <<"nest.in", "nest.s">>)
        [] n = "nest.in" -> ActionNode("ActionSelector", <<"a">>, TRUE, <<"nest.in.s">>)
        [] n = "nest.in.s" -> ActionNode("StringParser", <<>>, FALSE, <<>>)
        [] n = "nest.s"  -> ActionNode("StringParser", <<>>, FALSE, <<>>)
        [] n = "opt"     -> ActionNode("Command", <<>>, TRUE, <<"opt.s", "opt.e">>)
        [] n = "opt.s"   -> ActionNode("StringParser", <<"a">>, TRUE, <<>>)
        [] n = "opt.e"   -> ActionNode("Command", <<>>, TRUE, <<>>)]

Roots == {"num", "str", "cmd", "pair", "pos", "sel", "grp", "alt", "nest", "opt"}

Range(seq) == {seq[i] : i \in DOMAIN seq}

RECURSIVE NodesOf(_)
NodesOf(n) == {n} \cup UNION {NodesOf(c) : c \in Range(Grammar[n].options)}

IsSimpleOption(n) == Grammar[n].class \in {"NumberParser", "StringParser"}

IsSelector(n) == Grammar[n].class = "ActionSelector"

IsComposite(n) == Grammar[n].class = "Command"

-----------------------------------------------------------------------------
(* class Action: constructor and getters *)

\* Action.constructor (and the field initialisers): names absent or empty
\* makes the node unnamed and never called by name
hasName(n) == Len(Grammar[n].names) > 0

isCalledByName(n) == hasName(n) /\ Grammar[n].isCalledByName

NewAction(n, select) ==
    IF IsSelector(n)
    THEN [_isValid |-> FALSE, _tokensUsed |-> Undefined, _result |-> Undefined,
          _input |-> NoArray, _optionResults |-> <<>>,
          _usedAction |-> "undefined", _mode |-> select]
    ELSE [_isValid |-> FALSE, _tokensUsed |-> Undefined, _result |-> Undefined,
          _input |-> NoArray, _optionResults |-> <<>>]

\* get isValid
isValid(h, n) == h[n]._isValid

\* a SimpleOption that forgets the name token it consumed
tokensUsedWithoutName(h, n) ==
    IF IsSimpleOption(n)
    THEN IF h[n]._isValid THEN Num(1) ELSE Undefined
    ELSE IF h[n]._isValid THEN h[n]._tokensUsed ELSE Undefined

\* get tokensUsed: Action's, overridden by SimpleOption
tokensUsed(h, n) ==
    IF IsSimpleOption(n)
    THEN IF h[n]._isValid
         THEN (IF isCalledByName(n) THEN Num(2) ELSE Num(1))
         ELSE Undefined
    ELSE IF h[n]._isValid THEN h[n]._tokensUsed ELSE Undefined

\* get result
result(h, n) == h[n]._result

\* Action.checkName; usedName is input[0], undefined on an empty input
checkName(n, input) ==
    /\ Len(input) > 0
    /\ \E i \in DOMAIN Grammar[n].names : Grammar[n].names[i] = input[1]

-----------------------------------------------------------------------------
(* class Action: validate.  Every operator takes the heap and returns the  *)
(* heap after the call together with the call's return value.              *)

RECURSIVE Validate(_, _, _)
RECURSIVE ActionValidateOptions(_, _, _, _)
RECURSIVE ActionOptionValidated(_, _, _, _)
RECURSIVE SelectorValidateOptions(_, _, _, _, _)
RECURSIVE SelectorOptionValidated(_, _, _, _, _)

options(n) == Grammar[n].options

\* Action.validateOptions, after the loop: the token count is recorded
ActionOptionsDone(h, n, tokenId) ==
    [h |-> [h EXCEPT ![n]._tokensUsed =
                IF hasName(n) THEN Add(tokenId, Num(1)) ELSE tokenId],
     ret |-> TRUE]

\* Action.validateOptions, the loop body after this._options[i].validate(..)
\* returned with heap h
ActionOptionValidated(h, n, i, tokenId) ==
    IF h[options(n)[i]]._isValid
    THEN ActionValidateOptions(h, n, i + 1,
                               Add(tokenId, tokensUsed(h, options(n)[i])))
    ELSE [h |-> h, ret |-> FALSE]

\* Action.validateOptions: the loop from child i on, tokenId tokens consumed
ActionValidateOptions(h, n, i, tokenId) ==
    IF i <= Len(options(n)) /\ LessEq(tokenId, Len(h[n]._input.v))
    THEN ActionOptionValidated(
             Validate(h, options(n)[i], Slice(h[n]._input.v, tokenId.n)).h,
             n, i, tokenId)
    ELSE ActionOptionsDone(h, n, tokenId)

\* a switch whose third label is BEST_MATCH_LAST, each mode with its own loop
SwitchLabelsDistinct ==
    << [label |-> LAST, loop |-> "last"],
       [label |-> BEST_MATCH_FIRST, loop |-> "greater"],
       [label |-> BEST_MATCH_LAST, loop |-> "greaterOrEqual"] >>

\* the case labels of the switch over the mode, in source order, each with the
\* loop it guards; a mode no label equals takes the default loop
SwitchLabels ==
    << [label |-> LAST, loop |-> "last"],
       [label |-> BEST_MATCH_FIRST, loop |-> "greater"],
       [label |-> BEST_MATCH_FIRST, loop |-> "greaterOrEqual"] >>

SwitchLoop(mode) ==
    IF \E k \in DOMAIN SwitchLabels : SwitchLabels[k].label = mode
    THEN SwitchLabels[CHOOSE j \in DOMAIN SwitchLabels :
                        /\ SwitchLabels[j].label = mode
                        /\ \A l \in 1..(j - 1) : SwitchLabels[l].label # mode].loop
    ELSE "first"

\* this._usedAction = action
UseAction(h, n, action) == [h EXCEPT ![n]._usedAction = action]

\* ActionSelector.validateOptions, the loop body after action.validate(input)
\* returned with heap h
SelectorOptionValidated(h, n, loop, i, prevTokenCount) ==
    CASE loop = "last" ->
           SelectorValidateOptions(
               IF isValid(h, options(n)[i]) THEN UseAction(h, n, options(n)[i]) ELSE h,
               n, loop, i + 1, prevTokenCount)
      [] loop = "greater" ->
           IF /\ isValid(h, options(n)[i])
              /\ Greater(tokensUsed(h, options(n)[i]), prevTokenCount)
           THEN SelectorValidateOptions(UseAction(h, n, options(n)[i]), n, loop,
                                        i + 1, tokensUsed(h, options(n)[i]))
           ELSE SelectorValidateOptions(h, n, loop, i + 1, prevTokenCount)
      [] loop = "greaterOrEqual" ->
           IF /\ isValid(h, options(n)[i])
              /\ GreaterEq(tokensUsed(h, options(n)[i]), prevTokenCount)
           THEN SelectorValidateOptions(UseAction(h, n, options(n)[i]), n, loop,
                                        i + 1, tokensUsed(h, options(n)[i]))
           ELSE SelectorValidateOptions(h, n, loop, i + 1, prevTokenCount)
      [] OTHER ->
           IF isValid(h, options(n)[i])
           THEN [h |-> UseAction(h, n, options(n)[i]), ret |-> TRUE]
           ELSE SelectorValidateOptions(h, n, loop, i + 1, prevTokenCount)

\* ActionSelector.validateOptions: the selected loop from alternative i on
SelectorValidateOptions(h, n, loop, i, prevTokenCount) ==
    IF i <= Len(options(n))
    THEN SelectorOptionValidated(Validate(h, options(n)[i], h[n]._input.v).h,
                                 n, loop, i, prevTokenCount)
    ELSE [h |-> h, ret |-> h[n]._usedAction # "undefined"]

\* validateOptions, dispatched on the node's class
validateOptions(h, n) ==
    IF IsSelector(n)
    THEN SelectorValidateOptions(h, n, SwitchLoop(h[n]._mode), 1, Num(-1))
    ELSE ActionValidateOptions(h, n, 1, Num(0))

\* NumberParser.validation with output = Number(input[0])
NumberValidation(h, n, output) ==
    IF output.t = "NaN"
    THEN [h |-> h, ret |-> FALSE]
    ELSE [h |-> [h EXCEPT ![n]._result = output], ret |-> TRUE]

\* validation(): NumberParser, StringParser, ActionSelector; the host's
\* Command adds no check of its own
validation(h, n) ==
    CASE Grammar[n].class = "NumberParser" ->
           NumberValidation(h, n, IF Len(h[n]._input.v) > 0
                                  THEN NumberOf(h[n]._input.v[1]) ELSE NaN)
      [] Grammar[n].class = "StringParser" ->
           [h |-> h, ret |-> Len(h[n]._input.v) # 0]
      [] OTHER -> [h |-> h, ret |-> TRUE]

\* Action.validate, first statements (ActionSelector.validate clears
\* _usedAction before them)
ValidateReset(h, n) ==
    IF IsSelector(n)
    THEN [h EXCEPT ![n]._usedAction = "undefined",
                   ![n]._tokensUsed = Undefined, ![n]._result = Undefined]
    ELSE [h EXCEPT ![n]._tokensUsed = Undefined, ![n]._result = Undefined]

\* a validate that strips the name token from the stored input (this.input)
\* instead of the input it was called with
ValidateInputStored(h, n, input) ==
    [h EXCEPT ![n]._input =
        IF isCalledByName(n)
        THEN Arr(Slice(IF h[n]._input.def THEN h[n]._input.v ELSE input, 1))
        ELSE Arr(input)]

\* Action.validate: this._input = ...
ValidateInput(h, n, input) ==
    [h EXCEPT ![n]._input =
        IF isCalledByName(n) THEN Arr(Tail(input)) ELSE Arr(input)]

\* this._isValid = this.validation(), v being what validation() returned
ValidateAssign(v, n) ==
    [h |-> [v.h EXCEPT ![n]._isValid = v.ret], ret |-> v.ret]

\* Action.validate, last statement, vo being what validateOptions() returned
ValidateReturn(vo, n) ==
    IF vo.ret
    THEN ValidateAssign(validation(vo.h, n), n)
    ELSE [h |-> vo.h, ret |-> FALSE]

\* Action.validate / ActionSelector.validate
Validate(h, n, input) ==
    IF isCalledByName(n) /\ ~checkName(n, input)
    THEN [h |-> ValidateReset(h, n), ret |-> FALSE]
    ELSE ValidateReturn(
             validateOptions(ValidateInput(ValidateReset(h, n), n, input), n), n)

-----------------------------------------------------------------------------
(* class Action: run.  A call may end in a TypeError (threw), which leaves *)
(* the assignments not yet made undone.                                    *)

RECURSIVE Run(_, _, _)
RECURSIVE RunValidated(_, _)
RECURSIVE runOptions(_, _, _, _)
RECURSIVE OptionRun(_, _, _, _)

\* the entry runOptions adds for an option: its result, keyed by its first
\* name when it has one
OptionResult(h, option) ==
    [key |-> IF hasName(option) THEN Grammar[option].names[1] ELSE "",
     val |-> h[option]._result]

\* Action.runOptions, the loop body after option.run() returned r
OptionRun(r, n, i, optionResults) ==
    IF r.threw
    THEN [h |-> r.h, ret |-> optionResults, threw |-> TRUE]
    ELSE runOptions(r.h, n, i + 1,
                    Append(optionResults, OptionResult(r.h, options(n)[i])))

\* Action.runOptions: the loop from child i on, optionResults collected so far
runOptions(h, n, i, optionResults) ==
    IF i <= Len(options(n))
    THEN OptionRun(Run(h, options(n)[i], NoArray), n, i, optionResults)
    ELSE [h |-> h, ret |-> optionResults, threw |-> FALSE]

\* runner(): NumberParser, StringParser, ActionSelector; the host's Command
\* computes its result from the results of its options
runner(h, n) ==
    CASE Grammar[n].class = "NumberParser" ->
           [ret |-> h[n]._result, threw |-> FALSE]
      [] Grammar[n].class = "StringParser" ->
           IF ~h[n]._input.def
           THEN [ret |-> Undefined, threw |-> TRUE]
           ELSE [ret |-> IF Len(h[n]._input.v) > 0 THEN Str(h[n]._input.v[1])
                         ELSE Undefined,
                 threw |-> FALSE]
      [] Grammar[n].class = "ActionSelector" ->
           IF h[n]._usedAction = "undefined"
           THEN [ret |-> Undefined, threw |-> TRUE]
           ELSE [ret |-> result(h, h[n]._usedAction), threw |-> FALSE]
      [] OTHER ->
           [ret |-> Obj([k \in DOMAIN h[n]._optionResults |->
                            h[n]._optionResults[k].val]),
            threw |-> FALSE]

\* this._result = this.runner(); return this._result
RunResult(h, n, rr) ==
    IF rr.threw
    THEN [h |-> h, ret |-> Undefined, threw |-> TRUE]
    ELSE [h |-> [h EXCEPT ![n]._result = rr.ret], ret |-> rr.ret, threw |-> FALSE]

\* this._optionResults = this.runOptions(), ro being what runOptions() returned
RunRunner(h, n) == RunResult(h, n, runner(h, n))

RunOptionsDone(ro, n) ==
    IF ro.threw
    THEN [h |-> ro.h, ret |-> Undefined, threw |-> TRUE]
    ELSE RunRunner([ro.h EXCEPT ![n]._optionResults = ro.ret], n)

\* Action.run / ActionSelector.run after the optional validate
RunValidated(h, n) ==
    IF h[n]._isValid
    THEN RunOptionsDone(runOptions(h, n, 1, <<>>), n)
    ELSE [h |-> [h EXCEPT ![n]._optionResults = <<>>],
          ret |-> h[n]._result, threw |-> FALSE]

\* Action.run and ActionSelector.run (the same body); arg is the optional input
Run(h, n, arg) ==
    RunValidated(IF arg.def THEN Validate(h, n, arg.v).h ELSE h, n)

-----------------------------------------------------------------------------
(* The earlier classes: OptionBase, Option, NumberOption, StringOption,    *)
(* ValueAction and its ActionSelector, with validate / parse / execute.    *)
(* `ValueCommand` stands for the host's concrete subclass of ValueAction,  *)
(* "ValueSelector" for the ActionSelector that extends ValueAction.        *)

OptionNode(class, name, usesName, opts) ==
    [class |-> class, name |-> name, usesName |-> usesName, options |-> opts]

Options ==
    [n \in {"vnum", "vcmd", "vcmd.s", "vpair", "vpair.s", "vpair.n",
            "vsel", "vsel.1", "vsel.1.s", "vsel.2", "vsel.2.s",
            "vsel.3", "vsel.3.n"} |->
      CASE n = "vnum"    -> OptionNode("NumberOption", "n", FALSE, <<>>)
        [] n = "vcmd"    -> OptionNode("ValueCommand", "a|7", TRUE, <<"vcmd.s">>)
        [] n = "vcmd.s"  -> OptionNode("StringOption", "s", FALSE, <<>>)
        [] n = "vpair"   -> OptionNode("ValueCommand", "p", FALSE, <<"vpair.s", "vpair.n">>)
        [] n = "vpair.s" -> OptionNode("StringOption", "s", FALSE, <<>>)
        [] n = "vpair.n" -> OptionNode("NumberOption", "n", FALSE, <<>>)
        [] n = "vsel"    -> OptionNode("ValueSelector", "sel", FALSE,
                                       <<"vsel.1", "vsel.2", "vsel.3">>)
        [] n = "vsel.1"   -> OptionNode("ValueCommand", "a", TRUE, <<"vsel.1.s">>)
        [] n = "vsel.1.s" -> OptionNode("StringOption", "s", FALSE, <<>>)
        [] n = "vsel.2"   -> OptionNode("ValueCommand", "two", FALSE, <<"vsel.2.s">>)
        [] n = "vsel.2.s" -> OptionNode("StringOption", "s", FALSE, <<>>)
        [] n = "vsel.3"   -> OptionNode("ValueCommand", "a|7", TRUE, <<"vsel.3.n">>)
        [] n = "vsel.3.n" -> OptionNode("NumberOption", "n", FALSE, <<>>)]

OptionRoots == {"vnum", "vcmd", "vpair", "vsel"}

RECURSIVE OptionsOf(_)
OptionsOf(n) == {n} \cup UNION {OptionsOf(c) : c \in Range(Options[n].options)}

IsOption(n) == Options[n].class \in {"NumberOption", "StringOption"}

IsValueSelector(n) == Options[n].class = "ValueSelector"

IsValueAction(n) == Options[n].class \in {"ValueCommand", "ValueSelector"}

\* this.name.split(/\|/)
Split(name) == IF name = "a|7" THEN <<"a", "7">> ELSE <<name>>

\* a reference to the object the node `owner` created for its value
Ref(owner) == [t |-> "ref", n |-> 0, s |-> owner, a |-> <<>>]

\* the constructors; `object` is the {} the ValueAction constructor creates,
\* `value` the object this.value refers to
NewOption(n, select) ==
    CASE IsOption(n) ->
           [isValid |-> FALSE, result |-> Undefined, unparsed |-> NoArray]
      [] IsValueSelector(n) ->
           [isValid |-> FALSE, result |-> Undefined, unparsed |-> NoArray,
            value |-> n, object |-> <<>>, usedAction |-> "null", select |-> select]
      [] OTHER ->
           [isValid |-> FALSE, result |-> Undefined, unparsed |-> NoArray,
            value |-> n, object |-> <<>>]

RECURSIVE SumTokensUsed(_, _)
RECURSIVE getTokensUsed(_)

\* options.reduce(... + option.getTokensUsed(), usesName ? 1 : 0), from option i
SumTokensUsed(n, i) ==
    IF i <= Len(Options[n].options)
    THEN getTokensUsed(Options[n].options[i]) + SumTokensUsed(n, i + 1)
    ELSE IF Options[n].usesName THEN 1 ELSE 0

\* Option.getTokensUsed / ValueAction.getTokensUsed (fixed by the constructor)
getTokensUsed(n) == IF IsOption(n) THEN 1 ELSE SumTokensUsed(n, 1)

\* ValueAction.nameCheck
nameCheck(h, n) ==
    /\ Len(h[n].unparsed.v) > 0
    /\ \E i \in DOMAIN Split(Options[n].name) :
         Split(Options[n].name)[i] = h[n].unparsed.v[1]

RECURSIVE OptionValidate(_, _, _)
RECURSIVE ValueActionValidation(_, _, _, _, _, _)
RECURSIVE ValueOptionValidated(_, _, _, _, _)
RECURSIVE ValueSelectorValidation(_, _, _, _, _, _)
RECURSIVE ValueSelectorValidated(_, _, _, _, _, _)

\* NumberOption.validation / StringOption.validation, then
\* OptionBase.validate's this.isValid = ...
LeafValidation(h, n, input, output) ==
    IF Options[n].class = "NumberOption"
    THEN IF output.t = "NaN"
         THEN [h EXCEPT ![n].isValid = FALSE]
         ELSE [h EXCEPT ![n].result = output, ![n].isValid = TRUE]
    ELSE [h EXCEPT ![n].isValid = (Len(input) # 0)]

\* ValueAction.validation, the loop body after this.options[i].validate(..)
\* returned with heap h
ValueOptionValidated(h, n, input, i, tokenId) ==
    ValueActionValidation(h, n, input, i + 1,
        tokenId + getTokensUsed(Options[n].options[i]),
        /\ tokenId + getTokensUsed(Options[n].options[i]) >= Len(input)
        /\ h[Options[n].options[i]].isValid)

\* ValueAction.validation: the loop from child i on
ValueActionValidation(h, n, input, i, tokenId, isValidTmp) ==
    IF i <= Len(Options[n].options) /\ isValidTmp
    THEN ValueOptionValidated(
             OptionValidate(h, Options[n].options[i],
                            IF tokenId <= Len(input) THEN Slice(input, tokenId)
                            ELSE <<>>),
             n, input, i, tokenId)
    ELSE [h |-> h, ret |-> isValidTmp /\ tokenId <= Len(input)]

\* this.usedAction = action
ValueUseAction(h, n, action) == [h EXCEPT ![n].usedAction = action]

\* ActionSelector.validation, the loop body after action.validate(input)
\* returned with heap h
ValueSelectorValidated(h, n, input, loop, i, prevTokenCount) ==
    CASE loop = "last" ->
           ValueSelectorValidation(
               IF h[Options[n].options[i]].isValid
               THEN ValueUseAction(h, n, Options[n].options[i]) ELSE h,
               n, input, loop, i + 1, prevTokenCount)
      [] loop = "greater" ->
           IF /\ h[Options[n].options[i]].isValid
              /\ getTokensUsed(Options[n].options[i]) > prevTokenCount
           THEN ValueSelectorValidation(
                    ValueUseAction(h, n, Options[n].options[i]), n, input, loop,
                    i + 1, getTokensUsed(Options[n].options[i]))
           ELSE ValueSelectorValidation(h, n, input, loop, i + 1, prevTokenCount)
      [] loop = "greaterOrEqual" ->
           IF /\ h[Options[n].options[i]].isValid
              /\ getTokensUsed(Options[n].options[i]) >= prevTokenCount
           THEN ValueSelectorValidation(
                    ValueUseAction(h, n, Options[n].options[i]), n, input, loop,
                    i + 1, getTokensUsed(Options[n].options[i]))
           ELSE ValueSelectorValidation(h, n, input, loop, i + 1, prevTokenCount)
      [] OTHER ->
           IF h[Options[n].options[i]].isValid
           THEN [h |-> ValueUseAction(h, n, Options[n].options[i]), ret |-> TRUE]
           ELSE ValueSelectorValidation(h, n, input, loop, i + 1, prevTokenCount)

\* ActionSelector.validation: the selected loop from alternative i on
ValueSelectorValidation(h, n, input, loop, i, prevTokenCount) ==
    IF i <= Len(Options[n].options)
    THEN ValueSelectorValidated(OptionValidate(h, Options[n].options[i], input),
                                n, input, loop, i, prevTokenCount)
    ELSE [h |-> h, ret |-> h[n].usedAction # "null"]

\* validation(input) of a ValueAction, dispatched on the node's class
ValueValidation(h, n, input) ==
    IF IsValueSelector(n)
    THEN ValueSelectorValidation(h, n, input, SwitchLoop(h[n].select), 1, -1)
    ELSE ValueActionValidation(h, n, input, 1, 0, TRUE)

\* this.isValid = v, v being what the && expression of validate came to
ValueAssign(v, n) == [v.h EXCEPT ![n].isValid = v.ret]

\* ValueAction.validate after this.unparsed = input
ValueValidate(h, n, input) ==
    IF ~Options[n].usesName \/ nameCheck(h, n)
    THEN ValueAssign(ValueValidation(h, n, IF Options[n].usesName
                                           THEN Tail(input) ELSE input), n)
    ELSE [h EXCEPT ![n].isValid = FALSE]

\* validate(input): Option.validate and ValueAction.validate
OptionValidate(h, n, input) ==
    IF IsOption(n)
    THEN LeafValidation([h EXCEPT ![n].unparsed = Arr(input)], n, input,
                        IF Len(input) > 0 THEN NumberOf(input[1]) ELSE NaN)
    ELSE ValueValidate([h EXCEPT ![n].unparsed = Arr(input)], n, input)

RECURSIVE OptionParse(_, _)
RECURSIVE ValueActionParse(_, _, _)

\* the value ValueAction.parse stores for an option: a ValueAction's value
\* object, any other option's result
ParsedValue(h, option) ==
    IF IsValueAction(option) THEN Ref(h[option].value) ELSE h[option].result

\* the object with the property `name` set to val (an object is its list of
\* properties in insertion order)
SetProperty(object, name, val) ==
    IF \E k \in DOMAIN object : object[k].key = name
    THEN [k \in DOMAIN object |->
            IF object[k].key = name THEN [key |-> name, val |-> val] ELSE object[k]]
    ELSE Append(object, [key |-> name, val |-> val])

\* ValueAction.parse, the loop body after option.parse() returned with heap h
ValueOptionParsed(h, n, i) ==
    [h EXCEPT ![h[n].value].object =
        SetProperty(@, Options[Options[n].options[i]].name,
                    ParsedValue(h, Options[n].options[i]))]

\* ValueAction.parse: the loop from child i on
ValueActionParse(h, n, i) ==
    IF i <= Len(Options[n].options)
    THEN ValueActionParse(
             ValueOptionParsed(OptionParse(h, Options[n].options[i]), n, i),
             n, i + 1)
    ELSE h

\* ActionSelector.parser then this.value = ..., h being the heap after
\* this.usedAction.parse()
ValueSelectorParsed(h, n) == [h EXCEPT ![n].value = h[h[n].usedAction].value]

\* parse(): Option.parse (with NumberOption.parser, StringOption.parser),
\* ValueAction.parse, ActionSelector.parse
OptionParse(h, n) ==
    CASE Options[n].class = "NumberOption" -> h
      [] Options[n].class = "StringOption" ->
           IF h[n].isValid
           THEN [h EXCEPT ![n].result =
                    IF Len(h[n].unparsed.v) > 0 THEN Str(h[n].unparsed.v[1])
                    ELSE Undefined]
           ELSE h
      [] Options[n].class = "ValueSelector" ->
           IF h[n].isValid
           THEN ValueSelectorParsed(OptionParse(h, h[n].usedAction), n)
           ELSE h
      [] OTHER -> ValueActionParse(h, n, 1)

RECURSIVE OptionExecute(_, _, _)

\* execution(): ActionSelector's; the host's ValueCommand computes its result
\* from the properties of this.value
execution(h, n) ==
    IF IsValueSelector(n)
    THEN h[h[n].usedAction].result
    ELSE Obj([k \in DOMAIN h[h[n].value].object |-> h[h[n].value].object[k].val])

\* this.result = this.execution()
ExecuteResult(h, n) == [h EXCEPT ![n].result = execution(h, n)]

\* ValueAction.execute / ActionSelector.execute after the optional
\* validate and parse
ExecuteValidated(h, n) ==
    IF h[n].isValid
    THEN IF IsValueSelector(n)
         THEN ExecuteResult(OptionExecute(h, h[n].usedAction, NoArray), n)
         ELSE ExecuteResult(h, n)
    ELSE h

\* ValueAction.execute / ActionSelector.execute; arg is the optional input
OptionExecute(h, n, arg) ==
    ExecuteValidated(
        IF ~h[n].isValid /\ arg.def
        THEN OptionParse(OptionValidate(h, n, arg.v), n)
        ELSE h,
        n)

-----------------------------------------------------------------------------
(* The host: builds one grammar tree, then calls validate and run on it.   *)

NoCall == [op |-> "none", node |-> "undefined", input |-> NoArray,
           valid |-> FALSE, ret |-> Undefined, threw |-> FALSE]

Called(op, n, arg, valid, ret, threw) ==
    [op |-> op, node |-> n, input |-> arg, valid |-> valid, ret |-> ret,
     threw |-> threw]

\* the tree as constructed, every selector of it in mode `select`
NewTree(r, select) ==
    IF r \in Roots
    THEN [n \in NodesOf(r) |-> NewAction(n, select)]
    ELSE [n \in OptionsOf(r) |-> NewOption(n, select)]

HasSelector(r) ==
    IF r \in Roots
    THEN \E n \in NodesOf(r) : IsSelector(n)
    ELSE \E n \in OptionsOf(r) : IsValueSelector(n)

Init ==
    /\ root \in Roots \cup OptionRoots
    /\ \E select \in (IF HasSelector(root) THEN SelectionMode ELSE {FIRST}) :
         heap = NewTree(root, select)
    /\ last = NoCall
    /\ calls = 0

\* node.validate(input) on an Action
CallValidate(n, input) ==
    /\ n \in Roots
    /\ calls < MaxCalls
    /\ calls' = calls + 1
    /\ heap' = Validate(heap, n, input).h
    /\ last' = Called("validate", n, Arr(input), Validate(heap, n, input).ret,
                      Undefined, FALSE)
    /\ UNCHANGED root

\* node.run(input) on an Action
CallRun(n, input) ==
    /\ n \in Roots
    /\ calls < MaxCalls
    /\ calls' = calls + 1
    /\ heap' = Run(heap, n, Arr(input)).h
    /\ last' = Called("run", n, Arr(input), FALSE, Run(heap, n, Arr(input)).ret,
                      Run(heap, n, Arr(input)).threw)
    /\ UNCHANGED root

\* node.run() on an Action
CallRunAgain(n) ==
    /\ n \in Roots
    /\ calls < MaxCalls
    /\ calls' = calls + 1
    /\ heap' = Run(heap, n, NoArray).h
    /\ last' = Called("run", n, NoArray, FALSE, Run(heap, n, NoArray).ret,
                      Run(heap, n, NoArray).threw)
    /\ UNCHANGED root

\* selector.mode = value
SetMode(n, value) ==
    /\ root \in Roots
    /\ IsSelector(n)
    /\ heap' = [heap EXCEPT ![n]._mode = value]
    /\ last' = Called("mode", n, NoArray, FALSE, Undefined, FALSE)
    /\ UNCHANGED <<root, calls>>

\* node.validate(input) on an Option or a ValueAction
CallOptionValidate(n, input) ==
    /\ n \in OptionRoots
    /\ calls < MaxCalls
    /\ calls' = calls + 1
    /\ heap' = OptionValidate(heap, n, input)
    /\ last' = Called("validate", n, Arr(input), FALSE, Undefined, FALSE)
    /\ UNCHANGED root

\* node.parse() on an Option or a ValueAction
CallOptionParse(n) ==
    /\ n \in OptionRoots
    /\ calls < MaxCalls
    /\ calls' = calls + 1
    /\ heap' = OptionParse(heap, n)
    /\ last' = Called("parse", n, NoArray, FALSE, Undefined, FALSE)
    /\ UNCHANGED root

\* node.execute(input) on a ValueAction
CallOptionExecute(n, input) ==
    /\ n \in OptionRoots
    /\ IsValueAction(n)
    /\ calls < MaxCalls
    /\ calls' = calls + 1
    /\ heap' = OptionExecute(heap, n, Arr(input))
    /\ last' = Called("execute", n, Arr(input), FALSE, Undefined, FALSE)
    /\ UNCHANGED root

\* node.execute() on a ValueAction
CallOptionExecuteAgain(n) ==
    /\ n \in OptionRoots
    /\ IsValueAction(n)
    /\ calls < MaxCalls
    /\ calls' = calls + 1
    /\ heap' = OptionExecute(heap, n, NoArray)
    /\ last' = Called("execute", n, NoArray, FALSE, Undefined, FALSE)
    /\ UNCHANGED root

\* selector.select = value (a public field of the earlier ActionSelector)
SetSelect(n, value) ==
    /\ root \in OptionRoots
    /\ IsValueSelector(n)
    /\ heap' = [heap EXCEPT ![n].select = value]
    /\ last' = Called("mode", n, NoArray, FALSE, Undefined, FALSE)
    /\ UNCHANGED <<root, calls>>

Next ==
    \/ \E input \in Inputs : CallValidate(root, input)
    \/ \E input \in Inputs : CallRun(root, input)
    \/ CallRunAgain(root)
    \/ \E value \in SelectionMode : SetMode(root, value)
    \/ \E input \in Inputs : CallOptionValidate(root, input)
    \/ CallOptionParse(root)
    \/ \E input \in Inputs : CallOptionExecute(root, input)
    \/ CallOptionExecuteAgain(root)
    \/ \E value \in SelectionMode : SetSelect(root, value)

Spec == Init /\ [][Next]_vars

-----------------------------------------------------------------------------
(* What the same tree does when freshly constructed: the reference the     *)
(* properties below compare the reused tree with.                          *)

\* the host's tree constructed anew, every selector in the mode it has now
FreshTree ==
    IF root \in Roots
    THEN [n \in DOMAIN heap |->
            NewAction(n, IF IsSelector(n) THEN heap[n]._mode ELSE FIRST)]
    ELSE [n \in DOMAIN heap |->
            NewOption(n, IF IsValueSelector(n) THEN heap[n].select ELSE FIRST)]

\* the last call was validate(input) on the root
Validated == last.op = "validate"

\* the tokens supplied to the last call
Supplied == last.input.v

\* the root of an Action tree after validate(Supplied) on the fresh tree
FreshValidated == Validate(FreshTree, root, Supplied).h

\* the root of an Option tree after validate(Supplied) on the fresh tree
FreshOptionValidated == OptionValidate(FreshTree, root, Supplied)

Min(S) == CHOOSE x \in S : \A y \in S : x <= y

Max(S) == CHOOSE x \in S : \A y \in S : x >= y

-----------------------------------------------------------------------------
(* C1 *)

\* C1: after any earlier validate / run calls, validate(t) on a node leaves
\* its isValid, tokensUsed, result (and selected alternative) equal to what
\* validate(t) gives on a freshly constructed identical tree.
C1_ValidateOverwrites ==
    Validated =>
        IF root \in Roots
        THEN /\ isValid(heap, root) = isValid(FreshValidated, root)
             /\ tokensUsed(heap, root) = tokensUsed(FreshValidated, root)
             /\ result(heap, root) = result(FreshValidated, root)
             /\ IsSelector(root) =>
                    heap[root]._usedAction = FreshValidated[root]._usedAction
        ELSE /\ heap[root].isValid = FreshOptionValidated[root].isValid
             /\ heap[root].result = FreshOptionValidated[root].result
             /\ IsValueSelector(root) =>
                    heap[root].usedAction = FreshOptionValidated[root].usedAction

-----------------------------------------------------------------------------
(* C2 *)

\* C2: Action.run(tokens) returns undefined whenever the tokens do not match
\* the node's grammar, whatever the node was validated or run with before.
C2_RunUndefinedOnMismatch ==
    ( /\ root \in Roots
      /\ last.op = "run"
      /\ last.input.def
      /\ ~last.threw
      /\ ~Validate(FreshTree, root, Supplied).ret )
    => last.ret = Undefined

-----------------------------------------------------------------------------
(* C3 *)

\* C3: validate or run with tokens that do not match the grammar never
\* throws, for every node kind and token list and after any earlier calls.
C3_MismatchNeverThrows ==
    ( /\ root \in Roots
      /\ last.op \in {"validate", "run"}
      /\ last.input.def
      /\ ~Validate(FreshTree, root, Supplied).ret )
    => ~last.threw

-----------------------------------------------------------------------------
(* C4 *)

\* C4: for every composite action and every action selector, in every
\* reachable state, tokensUsed is defined if and only if isValid is true.
C4_TokensUsedIffValid ==
    root \in Roots =>
        \A n \in DOMAIN heap :
            (IsComposite(n) \/ IsSelector(n)) =>
                ((tokensUsed(heap, n) # Undefined) <=> isValid(heap, n))

-----------------------------------------------------------------------------
(* C5 *)

RECURSIVE ChildrenTokensUsed(_, _, _)
\* the sum of the tokensUsed of the children of n from child i on
ChildrenTokensUsed(h, n, i) ==
    IF i <= Len(options(n))
    THEN Add(tokensUsed(h, options(n)[i]), ChildrenTokensUsed(h, n, i + 1))
    ELSE Num(0)

\* C5: whenever a composite action is valid, its tokensUsed is the sum of its
\* children's tokensUsed, plus 1 if a name token was required and matched and
\* plus 0 otherwise (also for a node that has names but is not matched by name).
C5_TokensUsedIsSum ==
    root \in Roots =>
        \A n \in DOMAIN heap :
            (IsComposite(n) /\ isValid(heap, n)) =>
                tokensUsed(heap, n) =
                    Add(ChildrenTokensUsed(heap, n, 1),
                        Num(IF isCalledByName(n) THEN 1 ELSE 0))

-----------------------------------------------------------------------------
(* C6 *)

\* C6 as stated: for every leaf option, however its names and name matching
\* are configured, tokensUsed is defined exactly when isValid is true, and
\* then equals 1.  (getTokensUsed() of a NumberOption / StringOption is always
\* defined, so a validated one would have to be valid.)
C6_LeafTokensUsedIsOne ==
    \A n \in DOMAIN heap :
        IF root \in Roots
        THEN IsSimpleOption(n) =>
                /\ (tokensUsed(heap, n) # Undefined) <=> isValid(heap, n)
                /\ isValid(heap, n) => tokensUsed(heap, n) = Num(1)
        ELSE (IsOption(n) /\ heap[n].unparsed.def) =>
                (heap[n].isValid /\ getTokensUsed(n) = 1)

\* C6 as amended: for NumberParser and StringParser tokensUsed is defined
\* exactly when isValid is true, and then is 1, or 2 when the option is called
\* by name (the name token counts); after a validate that returned true on
\* such an option the token it converted is the tokensUsed-th of the input.
\* NumberOption and StringOption report getTokensUsed() = 1 valid or not.
C6_LeafTokensUsedCountsName ==
    \A n \in DOMAIN heap :
        IF root \in Roots
        THEN IsSimpleOption(n) =>
                /\ (tokensUsed(heap, n) # Undefined) <=> isValid(heap, n)
                /\ isValid(heap, n) =>
                       tokensUsed(heap, n) = Num(IF isCalledByName(n) THEN 2 ELSE 1)
                /\ (n = root /\ Validated /\ last.valid) =>
                       /\ tokensUsed(heap, n).n <= Len(Supplied)
                       /\ heap[n]._input.v =
                              Slice(Supplied, tokensUsed(heap, n).n - 1)
        ELSE IsOption(n) => getTokensUsed(n) = 1

\* C6 witness: a leaf called by name was validated and found valid
C6_Witness ==
    /\ root = "str"
    /\ Validated
    /\ last.valid
    /\ isValid(heap, "str")
    /\ Supplied = <<"a", "7">>

-----------------------------------------------------------------------------
(* C7 *)

\* C7: whenever a node is valid after validate(tokens), the tokens it reports
\* consumed never exceed the length of the token slice it was given.
C7_TokensUsedWithinSlice ==
    Validated =>
        IF root \in Roots
        THEN (isValid(heap, root) /\ tokensUsed(heap, root).t = "number") =>
                 tokensUsed(heap, root).n <= Len(Supplied)
        ELSE heap[root].isValid => getTokensUsed(root) <= Len(Supplied)

-----------------------------------------------------------------------------
(* C8 *)

RECURSIVE ChildrenValid(_, _, _, _)
\* every child of the Action n from child i on is valid when validated, on the
\* fresh tree, against the slice of `rest` that starts where the child before it
\* stopped (an offset past the end leaves the empty slice)
ChildrenValid(n, rest, i, offset) ==
    \/ i > Len(options(n))
    \/ LET slice == IF offset <= Len(rest) THEN Slice(rest, offset) ELSE <<>>
           r == Validate(FreshTree, options(n)[i], slice)
       IN  /\ r.ret
           /\ tokensUsed(r.h, options(n)[i]).t = "number"
           /\ ChildrenValid(n, rest, i + 1,
                            offset + tokensUsed(r.h, options(n)[i]).n)

RECURSIVE ValueChildrenValid(_, _, _, _)
\* the same for the children of a ValueAction
ValueChildrenValid(n, rest, i, offset) ==
    \/ i > Len(Options[n].options)
    \/ /\ OptionValidate(FreshTree, Options[n].options[i],
                         IF offset <= Len(rest) THEN Slice(rest, offset) ELSE <<>>
                        )[Options[n].options[i]].isValid
       /\ ValueChildrenValid(n, rest, i + 1,
                             offset + getTokensUsed(Options[n].options[i]))

\* C8: a composite action is valid after validate(tokens) exactly when its
\* name token matched (if name matching is required) and every child,
\* validated in declared order against the slice that starts where the
\* previous child stopped, is valid.
C8_ValidIffNameAndChildren ==
    Validated =>
        IF root \in Roots
        THEN (IsComposite(root) /\ \A c \in Range(options(root)) : ~IsSelector(c)) =>
                 (isValid(heap, root) <=>
                     IF isCalledByName(root)
                     THEN /\ checkName(root, Supplied)
                          /\ ChildrenValid(root, Tail(Supplied), 1, 0)
                     ELSE ChildrenValid(root, Supplied, 1, 0))
        ELSE Options[root].class = "ValueCommand" =>
                 (heap[root].isValid <=>
                     IF Options[root].usesName
                     THEN /\ Len(Supplied) > 0
                          /\ \E k \in DOMAIN Split(Options[root].name) :
                                 Split(Options[root].name)[k] = Supplied[1]
                          /\ ValueChildrenValid(root, Tail(Supplied), 1, 0)
                     ELSE ValueChildrenValid(root, Supplied, 1, 0))

-----------------------------------------------------------------------------
(* C9, C10 *)

\* the slice a selector hands to its alternatives
SelectorSlice ==
    IF root \in Roots
    THEN IF isCalledByName(root) THEN Tail(Supplied) ELSE Supplied
    ELSE IF Options[root].usesName THEN Tail(Supplied) ELSE Supplied

\* the selector's own name token matched, when it requires one
SelectorNameMatched ==
    IF root \in Roots
    THEN isCalledByName(root) => checkName(root, Supplied)
    ELSE Options[root].usesName =>
             /\ Len(Supplied) > 0
             /\ \E k \in DOMAIN Split(Options[root].name) :
                    Split(Options[root].name)[k] = Supplied[1]

\* the alternatives of the root selector that are valid against the slice
ValidAlternatives ==
    IF root \in Roots
    THEN {i \in DOMAIN options(root) :
             Validate(FreshTree, options(root)[i], SelectorSlice).ret}
    ELSE {i \in DOMAIN Options[root].options :
             OptionValidate(FreshTree, Options[root].options[i], SelectorSlice
                           )[Options[root].options[i]].isValid}

\* the root is a selector in `mode` that was just validated, its name matched
\* and some alternative is valid against the slice
SelectorValidated(mode) ==
    /\ Validated
    /\ IF root \in Roots
       THEN IsSelector(root) /\ heap[root]._mode = mode
       ELSE IsValueSelector(root) /\ heap[root].select = mode
    /\ SelectorNameMatched
    /\ ValidAlternatives # {}

\* the alternative the root selector selected
Selected ==
    IF root \in Roots THEN heap[root]._usedAction ELSE heap[root].usedAction

Alternative(i) ==
    IF root \in Roots THEN options(root)[i] ELSE Options[root].options[i]

\* C9: in FIRST mode, validating a selector with at least one alternative
\* valid against the slice selects the earliest-declared valid alternative.
C9_FirstSelectsEarliestValid ==
    SelectorValidated(FIRST) => Selected = Alternative(Min(ValidAlternatives))

\* C10: in LAST mode, validating a selector selects the last-declared
\* alternative that is valid against the slice.
C10_LastSelectsLastValid ==
    SelectorValidated(LAST) => Selected = Alternative(Max(ValidAlternatives))

-----------------------------------------------------------------------------
(* C11, C12 *)

\* the tokens alternative i of the root selector consumes when validated
\* against the slice
TokensOf(i) ==
    IF root \in Roots
    THEN tokensUsed(Validate(FreshTree, options(root)[i], SelectorSlice).h,
                    options(root)[i])
    ELSE Num(getTokensUsed(Options[root].options[i]))

\* the valid alternatives that consume at least as much as every valid one
BestAlternatives ==
    {i \in ValidAlternatives :
        \A j \in ValidAlternatives : GreaterEq(TokensOf(i), TokensOf(j))}

\* C11: in BEST_MATCH_FIRST mode, with at least one alternative valid against
\* the slice, the selector selects the earliest-declared of the valid
\* alternatives whose tokensUsed is greatest, selectors among them included.
C11_BestMatchFirstSelectsGreatest ==
    SelectorValidated(BEST_MATCH_FIRST) =>
        /\ BestAlternatives # {}
        /\ Selected = Alternative(Min(BestAlternatives))

\* C12: in BEST_MATCH_LAST mode, with at least one alternative valid against
\* the slice, the selector selects the last-declared of the valid alternatives
\* whose tokensUsed is greatest.
C12_BestMatchLastSelectsGreatest ==
    SelectorValidated(BEST_MATCH_LAST) =>
        /\ BestAlternatives # {}
        /\ Selected = Alternative(Max(BestAlternatives))

-----------------------------------------------------------------------------
(* C13, C14 *)

\* the heap a run / execute call on the root starts its execution phase
\* with: the heap after the validate (and parse) the call makes first
Executing(h, arg) ==
    IF root \in Roots
    THEN IF arg.def THEN Validate(h, root, arg.v).h ELSE h
    ELSE IF ~h[root].isValid /\ arg.def
         THEN OptionParse(OptionValidate(h, root, arg.v), root)
         ELSE h

\* the last call ran / executed the root selector, which was valid and had
\* selected an alternative
SelectorExecuted(h, l) ==
    /\ ~l.threw
    /\ IF root \in Roots
       THEN /\ l.op = "run"
            /\ IsSelector(root)
            /\ h[root]._isValid
            /\ h[root]._usedAction # "undefined"
       ELSE /\ l.op = "execute"
            /\ IsValueSelector(root)
            /\ h[root].isValid
            /\ h[root].usedAction # "null"

\* C13: running or executing a valid selector leaves the result of every
\* alternative that was not selected as it was when the execution began: the
\* runner / execution of such an alternative is not invoked.
C13_OnlySelectedRuns ==
    [][ SelectorExecuted(heap', last') =>
          IF root \in Roots
          THEN \A i \in DOMAIN options(root) :
                  options(root)[i] # heap'[root]._usedAction =>
                      heap'[options(root)[i]]._result =
                          Executing(heap, last'.input)[options(root)[i]]._result
          ELSE \A i \in DOMAIN Options[root].options :
                  Options[root].options[i] # heap'[root].usedAction =>
                      heap'[Options[root].options[i]].result =
                          Executing(heap, last'.input)[Options[root].options[i]].result
      ]_vars

\* C14: after run (parse) of a valid selector, the selector's own value
\* mapping is exactly the value mapping of the selected alternative.
C14_SelectorValueIsSelected ==
    IF root \in Roots
    THEN SelectorExecuted(heap, last) =>
             heap[root]._optionResults = heap[heap[root]._usedAction]._optionResults
    ELSE (last.op = "parse" /\ IsValueSelector(root) /\ heap[root].isValid) =>
             heap[root].value = heap[heap[root].usedAction].value

-----------------------------------------------------------------------------
(* C15 *)

\* C15: validate alone never makes a result readable: after validate on a
\* node, its result is undefined until a successful run / execute.
C15_ValidateLeavesResultUndefined ==
    Validated =>
        IF root \in Roots
        THEN result(heap, root) = Undefined
        ELSE heap[root].result = Undefined

-----------------------------------------------------------------------------
(* C16 *)

\* C16: run(tokens) / execute(tokens) on a composite or selector validates
\* (and parses) the tokens supplied before executing, also on a node that is
\* valid from an earlier call: afterwards the node holds the tokens supplied,
\* and its isValid and result are those the call gives on a fresh tree.
C16_ExecuteRevalidates ==
    IF root \in Roots
    THEN ( /\ last.op = "run"
           /\ last.input.def
           /\ ~last.threw
           /\ IsComposite(root) \/ IsSelector(root) ) =>
             /\ isValid(heap, root) = isValid(Run(FreshTree, root, last.input).h, root)
             /\ result(heap, root) = result(Run(FreshTree, root, last.input).h, root)
    ELSE (last.op = "execute" /\ last.input.def) =>
             /\ heap[root].unparsed = last.input
             /\ heap[root].isValid =
                    OptionExecute(FreshTree, root, last.input)[root].isValid
             /\ heap[root].result =
                    OptionExecute(FreshTree, root, last.input)[root].result

-----------------------------------------------------------------------------
(* C17 *)

\* C17: validate is idempotent: once validate(t) has returned, a second
\* validate(t) leaves every field of every node of the tree (isValid,
\* tokensUsed, the selected alternative, the results) as the first left it.
C17_ValidateIdempotent ==
    Validated =>
        IF root \in Roots
        THEN /\ Validate(heap, root, Supplied).h = heap
             /\ Validate(heap, root, Supplied).ret = last.valid
        ELSE OptionValidate(heap, root, Supplied) = heap

\* C17 witness: a by-name selector was validated, after an earlier call with
\* another input, and selected an alternative
C17_Witness ==
    /\ root = "alt"
    /\ calls = 2
    /\ Validated
    /\ last.valid
    /\ Supplied = <<"a", "7">>
    /\ heap["alt"]._usedAction = "alt.n"

-----------------------------------------------------------------------------
(* C19 *)

\* C19: in every reachable state a selector is valid if and only if its
\* selected-alternative reference is defined; a defined reference points to
\* one of the selector's own alternatives, and after validate on the selector
\* that alternative is valid against the slice of that call.
C19_ValidIffSelected ==
    IF root \in Roots
    THEN \A n \in DOMAIN heap :
            IsSelector(n) =>
                /\ isValid(heap, n) <=> (heap[n]._usedAction # "undefined")
                /\ (heap[n]._usedAction # "undefined") =>
                       heap[n]._usedAction \in Range(options(n))
                /\ (n = root /\ Validated /\ heap[n]._usedAction # "undefined") =>
                       Validate(FreshTree, heap[n]._usedAction, SelectorSlice).ret
    ELSE \A n \in DOMAIN heap :
            IsValueSelector(n) =>
                /\ heap[n].isValid <=> (heap[n].usedAction # "null")
                /\ (heap[n].usedAction # "null") =>
                       heap[n].usedAction \in Range(Options[n].options)
                /\ (n = root /\ Validated /\ heap[n].usedAction # "null") =>
                       OptionValidate(FreshTree, heap[n].usedAction, SelectorSlice
                                     )[heap[n].usedAction].isValid

-----------------------------------------------------------------------------
(* C18 *)

\* the alternative validate(input) on the root selector selects from heap h
\* when the selector is in `mode`
SelectedBy(h, mode, input) ==
    IF root \in Roots
    THEN Validate([h EXCEPT ![root]._mode = mode], root, input).h[root]._usedAction
    ELSE OptionValidate([h EXCEPT ![root].select = mode], root, input)[root].usedAction

\* this step is a validate call on the root selector, which is in `mode`
SelectorValidateStep(mode) ==
    /\ calls' = calls + 1
    /\ last'.op = "validate"
    /\ IF root \in Roots
       THEN IsSelector(root) /\ heap[root]._mode = mode
       ELSE IsValueSelector(root) /\ heap[root].select = mode

\* C18 as stated: a selector in BEST_MATCH_LAST mode selects the alternative
\* (or none) that the same selector, from the same state and on the same
\* slice, selects in BEST_MATCH_FIRST mode.
C18_BestMatchLastAsBestMatchFirst ==
    [][ SelectorValidateStep(BEST_MATCH_LAST) =>
          (IF root \in Roots THEN heap'[root]._usedAction
           ELSE heap'[root].usedAction)
              = SelectedBy(heap, BEST_MATCH_FIRST, last'.input.v) ]_vars

\* C18 as amended: a selector in BEST_MATCH_LAST mode selects the alternative
\* (or none) that the same selector, from the same state and on the same
\* slice, selects in FIRST mode.
C18_BestMatchLastAsFirst ==
    [][ SelectorValidateStep(BEST_MATCH_LAST) =>
          (IF root \in Roots THEN heap'[root]._usedAction
           ELSE heap'[root].usedAction)
              = SelectedBy(heap, FIRST, last'.input.v) ]_vars

\* C18 witness: a selector in BEST_MATCH_LAST mode was validated on a slice
\* for which a later alternative consumes more than the first valid one, and
\* selected the first valid one
C18_Witness ==
    /\ root = "sel"
    /\ Validated
    /\ heap["sel"]._mode = BEST_MATCH_LAST
    /\ Supplied = <<"7", "7">>
    /\ heap["sel"]._usedAction = "sel.2"
    /\ tokensUsed(heap, "sel.3") = Num(2)

-----------------------------------------------------------------------------
(* C20 *)

RECURSIVE FailingChild(_, _, _, _)
\* the first child of the Action n, from child i on, whose validate returns
\* false when the children are validated in order from heap h, tokenId tokens
\* consumed so far; 0 when the loop ends without one
FailingChild(h, n, i, tokenId) ==
    IF i <= Len(options(n)) /\ LessEq(tokenId, Len(h[n]._input.v))
    THEN LET r == Validate(h, options(n)[i], Slice(h[n]._input.v, tokenId.n))
         IN  IF ~r.ret
             THEN i
             ELSE FailingChild(r.h, n, i + 1,
                               Add(tokenId, tokensUsed(r.h, options(n)[i])))
    ELSE 0

RECURSIVE ValueFailingChild(_, _, _, _, _)
\* the same for the children of a ValueAction validated against `input`
ValueFailingChild(h, n, input, i, tokenId) ==
    IF i <= Len(Options[n].options)
    THEN LET c == Options[n].options[i]
             h2 == OptionValidate(h, c, IF tokenId <= Len(input)
                                        THEN Slice(input, tokenId) ELSE <<>>)
         IN  IF ~h2[c].isValid
             THEN i
             ELSE IF tokenId + getTokensUsed(c) >= Len(input)
                  THEN ValueFailingChild(h2, n, input, i + 1,
                                         tokenId + getTokensUsed(c))
                  ELSE 0
    ELSE 0

\* the first failing child of the root composite in validate(input) from h
RootFailingChild(h, input) ==
    IF root \in Roots
    THEN IF IsComposite(root) /\ (isCalledByName(root) => checkName(root, input))
         THEN FailingChild(ValidateInput(ValidateReset(h, root), root, input),
                           root, 1, Num(0))
         ELSE 0
    ELSE IF Options[root].class = "ValueCommand"
            /\ (Options[root].usesName =>
                  nameCheck([h EXCEPT ![root].unparsed = Arr(input)], root))
         THEN ValueFailingChild(h, root,
                                IF Options[root].usesName THEN Tail(input) ELSE input,
                                1, 0)
         ELSE 0

\* C20: when a child of a composite fails validation in a validate call, the
\* siblings declared after it are not validated in that call: their isValid,
\* tokensUsed and result are as they were before the call.
C20_SiblingsAfterFailureUntouched ==
    [][ (calls' = calls + 1 /\ last'.op = "validate"
         /\ RootFailingChild(heap, last'.input.v) > 0) =>
          IF root \in Roots
          THEN \A j \in (RootFailingChild(heap, last'.input.v) + 1)..Len(options(root)) :
                  /\ isValid(heap', options(root)[j]) = isValid(heap, options(root)[j])
                  /\ tokensUsed(heap', options(root)[j]) = tokensUsed(heap, options(root)[j])
                  /\ result(heap', options(root)[j]) = result(heap, options(root)[j])
          ELSE \A j \in (RootFailingChild(heap, last'.input.v) + 1)
                            ..Len(Options[root].options) :
                  heap'[Options[root].options[j]] = heap[Options[root].options[j]]
      ]_vars

====
